---- MODULE Spec2Model ----
(***************************************************************************)
(* simple3d: software rasterizer (js/index.js, js/objloader.js).           *)
(*                                                                         *)
(* Number model.  Model-space coordinates are integers.  An angle is an    *)
(* integer count of rotation steps of PI*dt = PI/StepsPerHalfTurn radians  *)
(* (the only angles Application.update produces).  Math.sin/Math.cos are   *)
(* a table in units of 1/Scale, so every rotated quantity is an integer    *)
(* count of 1/Scale.  Quotients are kept as exact fractions <<num, den>>,  *)
(* den = 0 standing for the non-finite results of a division by zero       *)
(* (num # 0: an Infinity of that sign, num = 0: NaN).  A cosine between    *)
(* two vectors is kept exactly as sign and square [sgn, num, den]          *)
(* (value sgn * sqrt(num/den)).  Floating-point rounding is not modelled.  *)
(***************************************************************************)
EXTENDS Integers, Sequences, FiniteSets, TLC

VARIABLES model, wireframeMode, phase, drawCalls, frame, updates, renders, args,
          horizon

vars == <<model, wireframeMode, phase, drawCalls, frame, updates, renders, args, horizon>>

(* ---------------------------- bounds ----------------------------------- *)
MaxFrames == 4
MaxFaces == 3

(* ------------------------ program constants ---------------------------- *)
Scale == 1000
targetFPS == 60
StepsPerHalfTurn == 2 * targetFPS
CanvasWidth == 800
CanvasHeight == 800
DefaultCameraDistance == 1

(* ---------------------------- arithmetic ------------------------------- *)
Sgn(n) == IF n < 0 THEN -1 ELSE IF n = 0 THEN 0 ELSE 1

\* a/b <= c/d for a, c >= 0 and b, d > 0, by continued fractions (no product
\* is formed, so the comparison is exact for every operand TLC can hold)
RECURSIVE FracLeq(_, _, _, _)
FracLeq(a, b, c, d) ==
    IF (a \div b) # (c \div d) THEN (a \div b) < (c \div d)
    ELSE IF a % b = 0 THEN TRUE
    ELSE IF c % d = 0 THEN FALSE
    ELSE FracLeq(d, c % d, b, a % b)

\* round(Scale * sin(k*PI/120)) for k = 0..60
SinTable ==
    << 0, 26, 52, 78, 105, 131, 156, 182, 208, 233, 259, 284, 309, 334, 358,
       383, 407, 431, 454, 477, 500, 522, 545, 566, 588, 609, 629, 649, 669,
       688, 707, 725, 743, 760, 777, 793, 809, 824, 839, 853, 866, 879, 891,
       903, 914, 924, 934, 943, 951, 959, 966, 972, 978, 983, 988, 991, 995,
       997, 999, 1000, 1000 >>

\* Math.sin(angle), angle in rotation steps, result in 1/Scale
Sin(angle) ==
    LET h == StepsPerHalfTurn
        r == angle % (2 * h)
    IN  IF r <= h \div 2 THEN SinTable[r + 1]
        ELSE IF r <= h THEN SinTable[h - r + 1]
        ELSE IF r <= h + h \div 2 THEN -SinTable[r - h + 1]
        ELSE -SinTable[2 * h - r + 1]

\* Math.cos(angle)
Cos(angle) == Sin(angle + StepsPerHalfTurn \div 2)

(* ----------------------------- Vector3D -------------------------------- *)
Vector3D(x, y, z) == [x |-> x, y |-> y, z |-> z]

subtract(a, b) == Vector3D(a.x - b.x, a.y - b.y, a.z - b.z)

cross(a, b) ==
    Vector3D(a.y * b.z - a.z * b.y,
             a.z * b.x - a.x * b.z,
             a.x * b.y - a.y * b.x)

dot(a, b) == a.x * b.x + a.y * b.y + a.z * b.z

\* |v|^2; magnitude() is its square root
magnitudeSq(v) == v.x * v.x + v.y * v.y + v.z * v.z

\* dot(a.normalize(), b.normalize()) as an exact cosine; den = 0 is the NaN
\* that normalize() of a zero vector yields
cosine(a, b) ==
    [sgn |-> Sgn(dot(a, b)), num |-> dot(a, b) * dot(a, b),
     den |-> magnitudeSq(a) * magnitudeSq(b)]

(* -------------------------- Transformation ----------------------------- *)
\* v in model units, result in 1/Scale
rotateXZ(v, angle) ==
    Vector3D(v.x * Cos(angle) - v.z * Sin(angle),
             v.y * Scale,
             v.x * Sin(angle) + v.z * Cos(angle))

\* v and dz in the same unit
translateZ(v, dz) == Vector3D(v.x, v.y, v.z + dz)

(* ------------------------------ Camera --------------------------------- *)
\* x/z, y/z as fractions, z kept
project(v) == [x |-> <<v.x, v.z>>, y |-> <<v.y, v.z>>, z |-> v.z]

\* (p + 1) / 2 * w on a fraction p
halfPlusOneTimes(p, w) == <<(p[1] + p[2]) * w, 2 * p[2]>>

\* (1 - (p + 1) / 2) * h on a fraction p
oneMinusHalfPlusOneTimes(p, h) == <<(2 * p[2] - (p[1] + p[2])) * h, 2 * p[2]>>

\* new Camera(canvasWidth, canvasHeight)
Camera(canvasWidth, canvasHeight) ==
    [canvasWidth |-> canvasWidth, canvasHeight |-> canvasHeight, distance |-> 1]

\* renderer.camera = new Camera(this.canvas.width, this.canvas.height)
rendererCamera == Camera(args.canvas.width, args.canvas.height)

\* mutant of toScreenCoordsOf: y is scaled like x, without the flip
toScreenCoordsOfUnflipped(camera, v) ==
    [x |-> halfPlusOneTimes(v.x, camera.canvasWidth),
     y |-> halfPlusOneTimes(v.y, camera.canvasHeight)]

\* camera.toScreenCoords(v)
toScreenCoordsOf(camera, v) ==
    [x |-> halfPlusOneTimes(v.x, camera.canvasWidth),
     y |-> oneMinusHalfPlusOneTimes(v.y, camera.canvasHeight)]

\* this.camera.toScreenCoords(v) in the renderer
toScreenCoords(v) == toScreenCoordsOf(rendererCamera, v)

(* ------------------------------ Model3D -------------------------------- *)
\* new Model3D(vertices, faces, cameraDistance)
Model3D(vertices, faces, cameraDistance) ==
    [vertices |-> vertices, faces |-> faces, rotation |-> 0,
     position |-> Vector3D(0, 0, cameraDistance)]

\* arr[idx] is a defined element (idx is a 0-based JavaScript index)
Defined(arr, idx) == idx \in 0..(Len(arr) - 1)

At(arr, idx) == arr[idx + 1]

\* mutant of getFaceNormalIsNull: faceIndices.length <= 3 gives null
getFaceNormalIsNullForTriangles(faceIndices) == Len(faceIndices) <= 3

\* faceIndices.length < 3 gives null
getFaceNormalIsNull(faceIndices) == Len(faceIndices) < 3

getFaceNormal(m, faceIndices) ==
    LET v0 == At(m.vertices, At(faceIndices, 0))
        v1 == At(m.vertices, At(faceIndices, 1))
        v2 == At(m.vertices, At(faceIndices, 2))
        edge1 == subtract(v1, v0)
        edge2 == subtract(v2, v0)
    IN  cross(edge1, edge2)

\* mutant of isFaceVisible: the test is dropped, every face counts as visible
isFaceVisibleAlways(m, faceIndices) == TRUE

\* mutant of isFaceVisible: rotatedNormal.z <= 0, an edge-on face is visible
isFaceVisibleOrEdgeOn(m, faceIndices) ==
    IF getFaceNormalIsNull(faceIndices) THEN TRUE
    ELSE rotateXZ(getFaceNormal(m, faceIndices), m.rotation).z <= 0

isFaceVisible(m, faceIndices) ==
    IF getFaceNormalIsNull(faceIndices) THEN TRUE
    ELSE rotateXZ(getFaceNormal(m, faceIndices), m.rotation).z < 0

\* position.z in 1/Scale, the unit of a rotated vertex
positionZ(m) == m.position.z * Scale

RECURSIVE sumZ(_, _, _)
sumZ(m, faceIndices, i) ==
    IF i > Len(faceIndices) THEN 0
    ELSE LET v == At(m.vertices, faceIndices[i])
             rotated == rotateXZ(v, m.rotation)
             translated == translateZ(rotated, positionZ(m))
         IN  translated.z + sumZ(m, faceIndices, i + 1)

\* sumZ / faceIndices.length as a fraction (0/0 = NaN for an empty face)
getAverageDepth(m, faceIndices) == <<sumZ(m, faceIndices, 1), Len(faceIndices)>>

\* mutant of transformVertex: translate first, then rotate
transformVertexTranslateFirst(m, v) ==
    LET translated == translateZ(v, m.position.z)
    IN  rotateXZ(translated, m.rotation)

transformVertex(m, v) ==
    LET rotated == rotateXZ(v, m.rotation)
    IN  translateZ(rotated, positionZ(m))

(* ----------------------------- Renderer -------------------------------- *)
\* new Vector3D(0.5, 0.5, -0.5), in units of 0.5; Renderer normalizes it
lightDirection == Vector3D(1, 1, -1)

foreground == <<80, 255, 80>>

\* tenths: minBrightness = 0.3
minBrightness == 3

\* mutant of max0: the clamp Math.max(0, ...) is left out
max0Missing(c) == c

\* Math.max(0, c) on a cosine; Math.max(0, NaN) is NaN
max0(c) == IF c.den = 0 \/ c.sgn >= 0 THEN c ELSE [sgn |-> 0, num |-> 0, den |-> c.den]

brightnessOf(rotatedNormal) == max0(cosine(rotatedNormal, lightDirection))

\* c <= 255 * (minBrightness + brightness * (1 - minBrightness)), in tenths:
\* 10c - 255*3 <= 255*7*brightness
colorLeq(c, brightness) ==
    LET L == 10 * c - 255 * minBrightness
        K == 255 * (10 - minBrightness)
    IN  IF brightness.sgn >= 0
        THEN L <= 0 \/ FracLeq(L * L, K * K, brightness.num, brightness.den)
        ELSE L < 0 /\ FracLeq(brightness.num, brightness.den, L * L, K * K)

\* the largest c in lo..hi with colorLeq(c, brightness); colorLeq(lo) holds
RECURSIVE floorSearch(_, _, _)
floorSearch(lo, hi, brightness) ==
    IF lo = hi THEN lo
    ELSE LET mid == (lo + hi + 1) \div 2
         IN  IF colorLeq(mid, brightness) THEN floorSearch(mid, hi, brightness)
             ELSE floorSearch(lo, mid - 1, brightness)

\* Math.floor(255 * finalBrightness) as a fraction c/1, NaN as 0/0; a
\* brightness lies in [-1, 1], so the result lies in -102..255 + 255
colorValueOf(brightness) ==
    IF brightness.den = 0 THEN <<0, 0>>
    ELSE <<floorSearch(-2 * 255, 2 * 255, brightness), 1>>

screenPointsOf(m, faceIndices) ==
    [i \in 1..Len(faceIndices) |->
        LET transformed == transformVertex(m, At(m.vertices, faceIndices[i]))
            projected == project(transformed)
        IN  toScreenCoords(projected)]

\* the canvas path drawWireframe strokes
drawWireframe(screenPoints) ==
    [points |-> screenPoints, fill |-> FALSE, fillStyle |-> <<>>,
     strokeStyle |-> foreground, lineWidth |-> 2,
     brightness |-> [sgn |-> 0, num |-> 0, den |-> 1]]

\* the canvas path drawShadedFace fills and strokes
drawShadedFace(m, faceIndices, screenPoints) ==
    LET normal == getFaceNormal(m, faceIndices)
        rotatedNormal == rotateXZ(normal, m.rotation)
        brightness == brightnessOf(rotatedNormal)
        colorValue == colorValueOf(brightness)
    IN  [points |-> screenPoints, fill |-> TRUE,
         fillStyle |-> <<<<0, 1>>, colorValue, <<0, 1>>>>,
         strokeStyle |-> <<<<0, 1>>, <<colorValue[1] * 7, colorValue[2] * 10>>, <<0, 1>>>>,
         lineWidth |-> 1, brightness |-> brightness]

\* drawFace reads a property of undefined or null: an empty screenPoints in
\* drawWireframe, a null normal in drawShadedFace
drawFaceThrows(wire, faceIndices) ==
    IF wire THEN Len(faceIndices) = 0 ELSE getFaceNormalIsNull(faceIndices)

\* mutant of drawFace: the wireframeMode test is inverted
drawFaceModeInverted(m, wire, faceIndices) ==
    LET screenPoints == screenPointsOf(m, faceIndices)
    IN  IF ~wire THEN drawWireframe(screenPoints)
        ELSE drawShadedFace(m, faceIndices, screenPoints)

drawFace(m, wire, faceIndices) ==
    LET screenPoints == screenPointsOf(m, faceIndices)
    IN  IF wire THEN drawWireframe(screenPoints)
        ELSE drawShadedFace(m, faceIndices, screenPoints)

(* ---------------------------- Application ------------------------------ *)
\* getAverageDepth reads v.x of an undefined vertex
depthThrows(m) ==
    \E i \in 1..Len(m.faces) :
        \E j \in 1..Len(m.faces[i]) : ~Defined(m.vertices, m.faces[i][j])

\* facesWithDepth: fi is the identity (position in model.faces) of face
facesWithDepth(m) ==
    [i \in 1..Len(m.faces) |->
        [fi |-> i - 1, face |-> m.faces[i], depth |-> getAverageDepth(m, m.faces[i])]]

isNaN(p) == p[1] = 0 /\ p[2] = 0

\* mutant of compareFn: (a, b) => a.depth - b.depth, nearest first
compareFnAscending(a, b) ==
    IF isNaN(a.depth) \/ isNaN(b.depth) THEN 0
    ELSE Sgn(a.depth[1] * b.depth[2] - b.depth[1] * a.depth[2])

\* sign of the comparator (a, b) => b.depth - a.depth; a NaN counts as +0
compareFn(a, b) ==
    IF isNaN(a.depth) \/ isNaN(b.depth) THEN 0
    ELSE Sgn(b.depth[1] * a.depth[2] - a.depth[1] * b.depth[2])

\* insert x into the sorted sequence s behind every element not after it
RECURSIVE insertSorted(_, _)
insertSorted(s, x) ==
    IF s = <<>> THEN <<x>>
    ELSE IF compareFn(s[Len(s)], x) > 0
         THEN Append(insertSorted(SubSeq(s, 1, Len(s) - 1), x), s[Len(s)])
         ELSE Append(s, x)

\* Array.prototype.sort with a consistent comparator: the stable order
RECURSIVE stableSort(_, _)
stableSort(s, n) ==
    IF n = 0 THEN <<>> ELSE insertSorted(stableSort(s, n - 1), s[n])

permutationsOf(s) ==
    {[i \in 1..Len(s) |-> s[p[i]]] : p \in Permutations(1..Len(s))}

\* every order facesWithDepth.sort may leave: with a NaN depth the
\* comparator is inconsistent and the order is implementation-defined
sortOutcomes(s) ==
    IF \E i \in 1..Len(s) : isNaN(s[i].depth) THEN permutationsOf(s)
    ELSE {stableSort(s, Len(s))}

\* whether render applies back-face culling: it has no switch of its own,
\* the test of render is !this.renderer.wireframeMode
cullingEnabled(wire) == ~wire

\* mutant of culled: culling is switched off, no face is ever skipped
culledNever(m, wire, faceIndices) == FALSE

\* mutant of culled: back faces are culled in wireframe mode too
culledInEveryMode(m, wire, faceIndices) == ~isFaceVisible(m, faceIndices)

\* back-face culling (not in wireframe mode): the face is skipped
culled(m, wire, faceIndices) == ~wire /\ ~isFaceVisible(m, faceIndices)

\* mutant of renderLoop: a keydown on w is handled between the first and the
\* second face of the frame
RECURSIVE renderLoopKeyDownMidFrame(_, _, _, _)
renderLoopKeyDownMidFrame(m, wire, sorted, i) ==
    IF i > Len(sorted) THEN [calls |-> <<>>, threw |-> FALSE]
    ELSE LET face == sorted[i].face
             w == IF i = 2 THEN ~wire ELSE wire
         IN  IF culled(m, w, face)
             THEN renderLoopKeyDownMidFrame(m, w, sorted, i + 1)
             ELSE IF drawFaceThrows(w, face)
             THEN [calls |-> <<>>, threw |-> TRUE]
             ELSE LET rest == renderLoopKeyDownMidFrame(m, w, sorted, i + 1)
                      call == [fi |-> sorted[i].fi, face |-> face,
                               rot |-> m.rotation, wire |-> w,
                               path |-> drawFace(m, w, face)]
                  IN  [calls |-> <<call>> \o rest.calls, threw |-> rest.threw]

\* the for loop of render over the sorted faces from position i on
RECURSIVE renderLoop(_, _, _, _)
renderLoop(m, wire, sorted, i) ==
    IF i > Len(sorted) THEN [calls |-> <<>>, threw |-> FALSE]
    ELSE LET face == sorted[i].face
         IN  IF culled(m, wire, face)
             THEN renderLoop(m, wire, sorted, i + 1)
             ELSE IF drawFaceThrows(wire, face)
             THEN [calls |-> <<>>, threw |-> TRUE]
             ELSE LET rest == renderLoop(m, wire, sorted, i + 1)
                      call == [fi |-> sorted[i].fi, face |-> face,
                               rot |-> m.rotation, wire |-> wire,
                               path |-> drawFace(m, wire, face)]
                  IN  [calls |-> <<call>> \o rest.calls, threw |-> rest.threw]

\* mutant of facesAfterRender: model.faces itself is sorted in place
facesAfterRenderSortedInPlace(faces, sorted) ==
    [i \in 1..Len(sorted) |-> sorted[i].face]

\* model.faces after render: map builds a new array, the sort is on the copy
facesAfterRender(faces, sorted) == faces

\* render(): the model it leaves, the paths drawn, whether it threw
render(m, wire) ==
    IF depthThrows(m) THEN {[model |-> m, calls |-> <<>>, threw |-> TRUE]}
    ELSE {LET r == renderLoop(m, wire, sorted, 1)
          IN  [model |-> [m EXCEPT !.faces = facesAfterRender(m.faces, sorted)],
               calls |-> r.calls, threw |-> r.threw] :
            sorted \in sortOutcomes(facesWithDepth(m))}

\* mutant of update: dt = 0, the rotation stays
updateNoAdvance(m) == m

\* update(dt): rotation += Math.PI * dt, one rotation step
update(m) == [m EXCEPT !.rotation = m.rotation + 1]

\* loop(): update(dt), then render(), then setTimeout(loop, frameTime),
\* which an exception thrown by render() skips
loop(m, wire) ==
    {[model |-> r.model, calls |-> r.calls,
      phase |-> IF r.threw THEN "crashed" ELSE "running",
      frame |-> [rot |-> update(m).rotation, wire |-> wire]] :
        r \in render(update(m), wire)}

Loop ==
    /\ renders < horizon
    /\ \E o \in loop(model, wireframeMode) :
          /\ model' = o.model
          /\ drawCalls' = o.calls
          /\ phase' = o.phase
          /\ frame' = o.frame
    /\ updates' = updates + 1
    /\ renders' = renders + 1
    /\ UNCHANGED <<wireframeMode, args, horizon>>

\* app.start(): the first loop() runs synchronously
Start ==
    /\ phase = "constructed"
    /\ Loop

\* the timer callback setTimeout(loop, frameTime) armed
Tick ==
    /\ phase = "running"
    /\ Loop

Keys == {"w", "W", "x"}

toLowerCase(key) == IF key = "W" THEN "w" ELSE key

\* renderer.wireframeMode after the keydown listener ran on key
onKeyDown(wire, key) == IF toLowerCase(key) = "w" THEN ~wire ELSE wire

\* the keydown listener of setupControls
KeyDown(key) ==
    /\ phase # "constructed"
    /\ wireframeMode' = onKeyDown(wireframeMode, key)
    /\ UNCHANGED <<model, phase, drawCalls, frame, updates, renders, args, horizon>>

(* ------------------------------ inputs --------------------------------- *)
\* vertices of the meshes tried
Palette ==
    << Vector3D(-1, -1, 0), Vector3D(-1, 1, 0), Vector3D(1, 1, 0), Vector3D(1, -1, 0),
       Vector3D(0, 0, 0), Vector3D(0, 1, 0), Vector3D(1, 0, 20), Vector3D(-2, 0, -1),
       Vector3D(0, 1, 1) >>

\* faces with at least 3 in-range indices: a quad facing the camera, the same
\* quad wound the other way, a steep triangle that turns away after two
\* steps and its reverse, a zero-area face, a triangle that after a quarter
\* turn faces the camera with its back to the light, a triangle whose normal
\* is the light direction after a quarter turn
GoodFaces ==
    { <<0, 1, 2, 3>>, <<3, 2, 1, 0>>, <<4, 5, 6>>, <<4, 6, 5>>, <<4, 4, 5>>,
      <<4, 5, 7>>, <<4, 8, 2>> }

\* faces the mesh input contract excludes
BadFaces == { <<>>, <<0, 1>>, <<0, 1, 9>>, <<0, -1, 2>> }

CameraDistances == {0, DefaultCameraDistance}

SeqsUpTo(S, n) == UNION {[1..k -> S] : k \in 1..n}

\* <canvas id="game" width="800" height="800">
GameCanvas == [width |-> CanvasWidth, height |-> CanvasHeight]

Meshes(faceSet) ==
    [vertices : {Palette}, faces : SeqsUpTo(faceSet, MaxFaces),
     cameraDistance : CameraDistances, canvas : {GameCanvas}]

\* new Application('game', new Model3D(vs, fs, cameraDistance))
InitWith(argSet) ==
    /\ args \in argSet
    /\ model = Model3D(args.vertices, args.faces, args.cameraDistance)
    /\ wireframeMode = FALSE
    /\ phase = "constructed"
    /\ drawCalls = <<>>
    /\ frame = [rot |-> 0, wire |-> FALSE]
    /\ updates = 0
    /\ renders = 0
    /\ horizon = MaxFrames

\* a mesh that honours the mesh input contract
Init == InitWith(Meshes(GoodFaces))

Next == Start \/ Tick \/ \E key \in Keys : KeyDown(key)

Spec == Init /\ [][Next]_vars

\* any mesh the constructor accepts, the contract's exclusions among them
InitAny == InitWith(Meshes(BadFaces \cup {<<0, 1, 2, 3>>, <<4, 6, 5>>}))

SpecAny == InitAny /\ [][Next]_vars

\* the frames at which a run of SpecLate is picked up: the last before a
\* quarter and before a half of a turn
LateFrames == {59, 119}

\* the state k frames after construction when no key was pressed: the
\* outcome of loop() on the rotation that k - 1 frames have accumulated
InitLate ==
    /\ args \in Meshes(GoodFaces)
    /\ wireframeMode = FALSE
    /\ \E k \in LateFrames :
         \E o \in loop([Model3D(args.vertices, args.faces, args.cameraDistance)
                           EXCEPT !.rotation = k - 1], FALSE) :
            /\ model = o.model
            /\ drawCalls = o.calls
            /\ phase = o.phase
            /\ frame = o.frame
            /\ updates = k
            /\ renders = k
            /\ horizon = k + MaxFrames

\* canvas sizes tried: the page's, a non-square one and a single pixel
Canvases ==
    {GameCanvas, [width |-> 640, height |-> 480], [width |-> 1, height |-> 1]}

\* one-face meshes on each of the canvas sizes
InitCanvas ==
    InitWith([vertices : {Palette}, faces : {<<f>> : f \in GoodFaces},
              cameraDistance : CameraDistances, canvas : Canvases])

SpecCanvas == InitCanvas /\ [][Next]_vars

NextLate == Tick \/ \E key \in Keys : KeyDown(key)

SpecLate == InitLate /\ [][NextLate]_vars

(* ----------------------------- objloader ------------------------------- *)
\* A text is the sequence of its lines, a line the sequence of the parts
\* that trim() and split(/\s+/) leave, a part a sequence of characters.
Digits == <<"0", "1", "2", "3", "4", "5", "6", "7", "8", "9">>

isDigit(c) == \E d \in 1..10 : Digits[d] = c

digitValue(c) == (CHOOSE d \in 1..10 : Digits[d] = c) - 1

\* the length of the longest prefix of s made of digits
digitPrefix(s) ==
    IF \A i \in 1..Len(s) : isDigit(s[i]) THEN Len(s)
    ELSE (CHOOSE i \in 1..Len(s) :
              /\ ~isDigit(s[i])
              /\ \A j \in 1..(i - 1) : isDigit(s[j])) - 1

\* the decimal value of the n digits s[1..n]
RECURSIVE digitsValue(_, _)
digitsValue(s, n) ==
    IF n = 0 THEN 0 ELSE 10 * digitsValue(s, n - 1) + digitValue(s[n])

RECURSIVE pow10(_)
pow10(n) == IF n = 0 THEN 1 ELSE 10 * pow10(n - 1)

\* a JavaScript number: NaN, or the fraction num/den
NaN == [nan |-> TRUE, num |-> 0, den |-> 1]

Number(num, den) == [nan |-> FALSE, num |-> num, den |-> den]

hasSign(s) == Len(s) > 0 /\ s[1] \in {"-", "+"}

unsigned(s) == IF hasSign(s) THEN Tail(s) ELSE s

signOf(s) == IF Len(s) > 0 /\ s[1] = "-" THEN -1 ELSE 1

\* parseInt(s, 10): an optional sign and the digits that follow it; what
\* comes after them is ignored, no digit at all gives NaN
parseInt(s) ==
    LET body == unsigned(s)
        n == digitPrefix(body)
    IN  IF n = 0 THEN NaN ELSE Number(signOf(s) * digitsValue(body, n), 1)

\* parseFloat(s) on a decimal literal: sign, digits, an optional point and
\* digits; undefined (a missing part) and a part without a digit give NaN
parseFloat(s) ==
    LET body == unsigned(s)
        n == digitPrefix(body)
        rest == SubSeq(body, n + 1, Len(body))
        f == IF Len(rest) > 0 /\ rest[1] = "." THEN digitPrefix(Tail(rest)) ELSE 0
    IN  IF n + f = 0 THEN NaN
        ELSE Number(signOf(s) * (digitsValue(body, n) * pow10(f)
                                   + digitsValue(Tail(rest), f)),
                    pow10(f))

\* p.split('/')[0]
splitFirst(p) ==
    IF \A i \in 1..Len(p) : p[i] # "/" THEN p
    ELSE SubSeq(p, 1, (CHOOSE i \in 1..Len(p) :
                           p[i] = "/" /\ \A j \in 1..(i - 1) : p[j] # "/") - 1)

\* parts[i] of a line, undefined (parsed as NaN) past its end
partFloat(parts, i) == IF i < Len(parts) THEN parseFloat(parts[i + 1]) ELSE NaN

\* !line || line.startsWith('#')
skipped(parts) == Len(parts) = 0 \/ parts[1][1] = "#"

isVertexLine(parts) == ~skipped(parts) /\ parts[1] = <<"v">>

isFaceLine(parts) == ~skipped(parts) /\ parts[1] = <<"f">>

\* parseInt of the part before the first slash, minus one
indexOfPart(p) ==
    LET n == parseInt(splitFirst(p))
    IN  IF n.nan THEN NaN ELSE Number(n.num - 1, 1)

\* idxs of an f line: the 0-based indices of its parts, NaN filtered out
idxsOf(parts) ==
    LET all == [i \in 1..(Len(parts) - 1) |-> indexOfPart(parts[i + 1])]
        kept == SelectSeq(all, LAMBDA n : ~n.nan)
    IN  [i \in 1..Len(kept) |-> kept[i].num]

\* fan triangulation of idxs: (idxs[0], idxs[i], idxs[i+1]) for i = 1..length-2
fan(idxs) ==
    IF Len(idxs) >= 3
    THEN [i \in 1..(Len(idxs) - 2) |-> <<idxs[1], idxs[i + 1], idxs[i + 2]>>]
    ELSE <<>>

\* the vertices and faces arrays after the loop over lines[1..n]
RECURSIVE parseLines(_, _)
parseLines(lines, n) ==
    IF n = 0 THEN [vertices |-> <<>>, faces |-> <<>>]
    ELSE LET before == parseLines(lines, n - 1)
             parts == lines[n]
             x == partFloat(parts, 1)
             y == partFloat(parts, 2)
             z == partFloat(parts, 3)
         IN  IF isVertexLine(parts)
             THEN IF ~x.nan /\ ~y.nan /\ ~z.nan
                  THEN [before EXCEPT !.vertices = Append(@, [x |-> x, y |-> y, z |-> z])]
                  ELSE before
             ELSE IF isFaceLine(parts)
             THEN [before EXCEPT !.faces = @ \o fan(idxsOf(parts))]
             ELSE before

\* vertices[oldIdx] of an index outside the array
undefined == [undefined |-> TRUE]

\* Array.from(usedSet).sort((a, b) => a - b)
RECURSIVE sortAscending(_)
sortAscending(S) ==
    IF S = {} THEN <<>>
    ELSE LET least == CHOOSE a \in S : \A b \in S : a <= b
         IN  <<least>> \o sortAscending(S \ {least})

\* parseOBJ(text): { vertices: cleanVerts, faces: cleanFaces }
parseOBJ(text) ==
    LET raw == parseLines(text, Len(text))
        usedSet == {raw.faces[i][k] : i \in 1..Len(raw.faces), k \in 1..3}
        usedIndices == sortAscending(usedSet)
        oldToNew == [oldIdx \in usedSet |->
                        (CHOOSE n \in 1..Len(usedIndices) : usedIndices[n] = oldIdx) - 1]
        cleanVerts == [n \in 1..Len(usedIndices) |->
                          IF Defined(raw.vertices, usedIndices[n])
                          THEN At(raw.vertices, usedIndices[n])
                          ELSE undefined]
        cleanFaces == [i \in 1..Len(raw.faces) |->
                          [k \in 1..3 |-> oldToNew[raw.faces[i][k]]]]
    IN  [vertices |-> cleanVerts, faces |-> cleanFaces]

\* the longest text tried, in lines
MaxLines == 5

\* the lines the texts tried are made of
LinePool ==
    {
      <<<<"v">>, <<"0">>, <<"0">>, <<"0">>>>,   \* v 0 0 0
      <<<<"v">>, <<"1">>, <<"0">>, <<"0">>>>,   \* v 1 0 0
      <<<<"v">>, <<"0">>, <<"1">>, <<"0">>>>,   \* v 0 1 0
      <<<<"v">>, <<"0", ".", "5">>, <<"0">>, <<"-", "1">>>>,   \* v 0.5 0 -1
      <<<<"v">>, <<"x">>, <<"0">>, <<"0">>>>,   \* v x 0 0
      <<<<"f">>, <<"1">>, <<"2">>, <<"3">>>>,   \* f 1 2 3
      <<<<"f">>, <<"1">>, <<"2">>, <<"3">>, <<"4">>>>,   \* f 1 2 3 4
      <<<<"f">>, <<"3", "/", "1">>, <<"2", "/", "2">>, <<"9">>>>,   \* f 3/1 2/2 9
      <<<<"f">>, <<"2">>, <<"3">>, <<"4">>>>,   \* f 2 3 4
      <<<<"f">>, <<"2">>, <<"x">>, <<"1">>>>,   \* f 2 x 1
      <<<<"v", "n">>, <<"0">>, <<"0">>, <<"1">>>>,   \* vn 0 0 1
      <<<<"#">>, <<"v">>, <<"1">>, <<"1">>, <<"1">>>>    \* # v 1 1 1
    }

Texts == SeqsUpTo(LinePool, MaxLines)

\* loadOBJ after res.text(): the text is there, parseOBJ has not run
InitObj ==
    /\ args \in [text : Texts]
    /\ model = [vertices |-> <<>>, faces |-> <<>>]
    /\ phase = "fetched"
    /\ wireframeMode = FALSE
    /\ drawCalls = <<>>
    /\ frame = [rot |-> 0, wire |-> FALSE]
    /\ updates = 0
    /\ renders = 0
    /\ horizon = 0

\* return parseOBJ(text)
ParseOBJ ==
    /\ phase = "fetched"
    /\ model' = parseOBJ(args.text)
    /\ phase' = "parsed"
    /\ UNCHANGED <<wireframeMode, drawCalls, frame, updates, renders, args, horizon>>

SpecObj == InitObj /\ [][ParseOBJ]_vars

(* ------------------------------ claims --------------------------------- *)
\* the model as the last frame rendered it
frameModel == [model EXCEPT !.rotation = frame.rot]

\* the depth key getAverageDepth gives the face of draw call i in that frame
depthOfCall(i) == getAverageDepth(frameModel, drawCalls[i].face)

\* p >= q on two depths with positive denominators
depthGeq(p, q) == p[1] * q[2] >= q[1] * p[2]

\* the identities of the faces drawn in the last frame
drawnFaces == {drawCalls[i].fi : i \in 1..Len(drawCalls)}

allFaces == 0..(Len(model.faces) - 1)

\* C1: painter's ordering. In every rendered frame the faces handed to
\* drawFace come in non-increasing order of getAverageDepth computed at that
\* frame's rotation: a face drawn before another is at least as deep.
C1_PaintersOrder ==
    \A i, j \in 1..Len(drawCalls) :
        i < j => depthGeq(depthOfCall(i), depthOfCall(j))

\* a frame in which the sort had to reorder: a deeper face that comes later
\* in model.faces is drawn before a nearer face that comes earlier
C1_Witness ==
    \E i, j \in 1..Len(drawCalls) :
        /\ i < j
        /\ drawCalls[i].fi > drawCalls[j].fi
        /\ ~depthGeq(depthOfCall(j), depthOfCall(i))

\* C2: culling rule. A frame rendered with wireframeMode off draws exactly
\* the faces for which isFaceVisible holds at that frame's rotation; a
\* frame rendered with wireframeMode on draws every face of the mesh.
C2_CullingRule ==
    renders > 0 =>
        IF frame.wire THEN drawnFaces = allFaces
        ELSE drawnFaces =
                {fi \in allFaces : isFaceVisible(frameModel, At(model.faces, fi))}

\* a wireframe frame that draws a back face next to a front face
C2_Witness ==
    /\ frame.wire
    /\ \E fi \in drawnFaces : ~isFaceVisible(frameModel, At(model.faces, fi))
    /\ \E fi \in drawnFaces : isFaceVisible(frameModel, At(model.faces, fi))

\* C3: frame stepping. Every run of the main loop advances model.rotation by
\* exactly one step of PI*dt and then renders once with the advanced value,
\* so successive frames are rendered one step apart, strictly increasing;
\* no other step moves the rotation.
C3_FrameStepping ==
    [][ /\ renders' = renders + 1 =>
              /\ updates' = updates + 1
              /\ model'.rotation = model.rotation + 1
              /\ frame'.rot = model'.rotation
              /\ frame'.rot > frame.rot
        /\ renders' = renders =>
              /\ updates' = updates
              /\ model'.rotation = model.rotation
              /\ frame'.rot = frame.rot ]_vars

\* two frames have been rendered, the second at the rotation of two steps
C3_Witness == renders = 2 /\ updates = 2 /\ frame.rot = 2 /\ model.rotation = 2

\* a face with fewer than 3 indices or an index outside the vertex sequence
malformedFace(m, faceIndices) ==
    \/ Len(faceIndices) < 3
    \/ \E j \in 1..Len(faceIndices) : ~Defined(m.vertices, faceIndices[j])

malformed(m) == \E i \in 1..Len(m.faces) : malformedFace(m, m.faces[i])

\* C4: malformed meshes are rejected before the pipeline runs. A mesh with a
\* face of fewer than 3 indices or an out-of-range index never gets a frame:
\* Application.render is not executed on it.
C4_MalformedRejected == malformed(model) => renders = 0

\* the fill calls of the last frame
fillCalls == {i \in 1..Len(drawCalls) : drawCalls[i].path.fill}

\* the rotated normal of the face of draw call i, in the last frame
rotatedNormalOfCall(i) ==
    rotateXZ(getFaceNormal(frameModel, drawCalls[i].face), frame.rot)

\* x + y - z: the rotated normal against the light direction (0.5, 0.5, -0.5)
towardsLight(n) == n.x + n.y - n.z

\* C5: shading floor and ceiling. For every face passed to drawShadedFace
\* brightness is max(0, cosine of the rotated normal and the light), so it
\* lies in [0, 1] and finalBrightness = 0.3 + 0.7 * brightness in [0.3, 1.0];
\* the colour channel is an integer in 76..255; a normal at 90 degrees or
\* more from the light gives the floor (brightness 0, colour 76) and a
\* normal along the light gives brightness 1, colour 255.
C5_ShadingRange ==
    \A i \in fillCalls :
        LET b == drawCalls[i].path.brightness
            c == drawCalls[i].path.fillStyle[2]
            n == rotatedNormalOfCall(i)
            d == towardsLight(n)
        IN  /\ b.den > 0
            /\ b.den = 3 * (n.x * n.x + n.y * n.y + n.z * n.z)
            /\ b.num = IF d > 0 THEN d * d ELSE 0
            /\ b.sgn = IF d > 0 THEN 1 ELSE 0
            /\ b.num <= b.den
            /\ c[2] = 1 /\ c[1] \in 76..255
            /\ d <= 0 => c[1] = 76
            /\ (n.x = n.y /\ n.y = -n.z) => (b.num = b.den /\ c[1] = 255)
            /\ (c[1] = 255) <=> (b.num = b.den)

\* one shaded frame fills a face whose normal is exactly the light direction
\* (colour 255) and a face turned more than 90 degrees from the light
\* (colour 76)
C5_Witness ==
    /\ \E i \in fillCalls :
          /\ rotatedNormalOfCall(i).x = rotatedNormalOfCall(i).y
          /\ rotatedNormalOfCall(i).y = -rotatedNormalOfCall(i).z
          /\ drawCalls[i].path.fillStyle[2] = <<255, 1>>
    /\ \E i \in fillCalls :
          /\ towardsLight(rotatedNormalOfCall(i)) < 0
          /\ drawCalls[i].path.fillStyle[2] = <<76, 1>>

\* x and z of cross(v1 - v0, v2 - v0) written out on the coordinates
normalXOf(v0, v1, v2) ==
    (v1.y - v0.y) * (v2.z - v0.z) - (v1.z - v0.z) * (v2.y - v0.y)

normalZOf(v0, v1, v2) ==
    (v1.x - v0.x) * (v2.y - v0.y) - (v1.y - v0.y) * (v2.x - v0.x)

\* z of rotateXZ(cross(v1 - v0, v2 - v0), rotation) for the face's first
\* three vertices
rotatedNormalZ(m, faceIndices) ==
    LET v0 == At(m.vertices, At(faceIndices, 0))
        v1 == At(m.vertices, At(faceIndices, 1))
        v2 == At(m.vertices, At(faceIndices, 2))
    IN  normalXOf(v0, v1, v2) * Sin(m.rotation) + normalZOf(v0, v1, v2) * Cos(m.rotation)

\* C6: visibility test. For every face with at least 3 indices, at every
\* rotation, isFaceVisible is true exactly when the z component of
\* rotateXZ(cross(v1 - v0, v2 - v0), rotation) is strictly negative; the
\* result depends on the first three vertices and the rotation only, not on
\* model.position.
C6_VisibilityTest ==
    \A i \in 1..Len(model.faces) :
        LET f == model.faces[i]
        IN  Len(f) >= 3 =>
              /\ isFaceVisible(model, f) <=> (rotatedNormalZ(model, f) < 0)
              /\ isFaceVisible(model, f) <=> isFaceVisible(model, SubSeq(f, 1, 3))
              /\ \A cd \in 0..3 :
                    isFaceVisible([model EXCEPT !.position.z = cd], f)
                        <=> isFaceVisible(model, f)

\* a shaded frame, rendered away from rotation 0, that culled a face whose
\* nonzero normal is exactly edge-on and a zero-area face, and drew another
C6_Witness ==
    /\ renders > 0 /\ ~frame.wire /\ drawCalls # <<>>
    /\ model.rotation = frame.rot
    /\ \E fi \in allFaces \ drawnFaces :
          /\ rotatedNormalZ(model, At(model.faces, fi)) = 0
          /\ getFaceNormal(model, At(model.faces, fi)) # Vector3D(0, 0, 0)
    /\ \E fi \in allFaces \ drawnFaces :
          getFaceNormal(model, At(model.faces, fi)) = Vector3D(0, 0, 0)

\* C7: nothing in a frame is fatal for a mesh whose faces all have at least
\* 3 in-range indices, zero-area faces and vertices at or behind the camera
\* plane included: every frame completes without throwing, in wireframe and
\* in shaded mode, and the loop is armed for the next frame.
C7_NoFatalFrame ==
    (~malformed(model) /\ renders > 0) =>
        /\ phase = "running"
        /\ \A fi \in allFaces :
              culled(frameModel, frame.wire, At(model.faces, fi)) \/ fi \in drawnFaces

\* z of the transformed vertex under index idx, in the last frame
transformedZ(idx) == transformVertex(frameModel, At(model.vertices, idx)).z

\* frames went on after a wireframe frame that drew a zero-area face, a
\* vertex exactly at the camera plane (non-finite screen coordinates) and a
\* vertex behind the camera
C7_Witness ==
    /\ renders >= 2 /\ phase = "running" /\ frame.wire
    /\ \E i \in 1..Len(drawCalls) :
          /\ getFaceNormal(model, drawCalls[i].face) = Vector3D(0, 0, 0)
          /\ \E k \in 1..Len(drawCalls[i].face) :
                /\ transformedZ(drawCalls[i].face[k]) = 0
                /\ drawCalls[i].path.points[k].x[2] = 0
    /\ \E i \in 1..Len(drawCalls) :
          \E k \in 1..Len(drawCalls[i].face) : transformedZ(drawCalls[i].face[k]) < 0

\* the screen point of the vertex under index idx, written out:
\* x = (x'/z' + 1) / 2 * width, y = (1 - (y'/z' + 1) / 2) * height
screenPointOf(idx) ==
    LET t == transformVertex(frameModel, At(model.vertices, idx))
    IN  [x |-> <<(t.x + t.z) * CanvasWidth, 2 * t.z>>,
         y |-> <<(t.z - t.y) * CanvasHeight, 2 * t.z>>]

\* C8: drawing sink contract. In every frame each face that survives culling
\* produces exactly one draw call and a culled face none; the call carries
\* one screen point per face index, in the face's index order; it is a
\* filled polygon with the computed colour exactly when wireframeMode is off
\* and an outline-only stroke without fill exactly when it is on.
C8_SinkContract ==
    renders > 0 =>
        /\ \A i, j \in 1..Len(drawCalls) : drawCalls[i].fi = drawCalls[j].fi => i = j
        /\ drawnFaces =
              {fi \in allFaces : ~culled(frameModel, frame.wire, At(model.faces, fi))}
        /\ \A i \in 1..Len(drawCalls) :
              LET call == drawCalls[i]
              IN  /\ call.fi \in allFaces
                  /\ call.face = At(model.faces, call.fi)
                  /\ Len(call.path.points) = Len(call.face)
                  /\ \A k \in 1..Len(call.face) :
                        call.path.points[k] = screenPointOf(call.face[k])
                  /\ call.path.fill <=> ~frame.wire
                  /\ call.path.fill =>
                        /\ Len(call.path.fillStyle) = 3
                        /\ call.path.fillStyle[2] =
                              colorValueOf(brightnessOf(rotatedNormalOfCall(i)))
                  /\ ~call.path.fill =>
                        /\ call.path.fillStyle = <<>>
                        /\ call.path.strokeStyle = foreground

\* a shaded frame that culled a face and filled a quad with its four points
C8_Witness ==
    /\ renders > 0 /\ ~frame.wire
    /\ drawnFaces # allFaces
    /\ \E i \in 1..Len(drawCalls) :
          Len(drawCalls[i].path.points) = 4 /\ drawCalls[i].path.fill

\* C9: geometry is immutable. After any sequence of update, render and
\* wireframe toggles model.vertices, model.faces (contents and order) and
\* model.position are what the constructor was given; a frame changes
\* model.rotation only and leaves wireframeMode alone, and the key handler
\* changes renderer.wireframeMode only.
C9_GeometryImmutable ==
    /\ [](/\ model.vertices = args.vertices
          /\ model.faces = args.faces
          /\ model.position = Vector3D(0, 0, args.cameraDistance))
    /\ [][ /\ model' = [model EXCEPT !.rotation = model'.rotation]
           /\ renders' # renders => wireframeMode' = wireframeMode
           /\ wireframeMode' # wireframeMode =>
                  /\ model' = model
                  /\ drawCalls' = drawCalls
                  /\ renders' = renders ]_vars

\* after a toggle, a frame whose depth sort drew the faces in another order
\* than model.faces holds them
C9_Witness ==
    /\ renders >= 2 /\ frame.wire
    /\ \E i, j \in 1..Len(drawCalls) : i < j /\ drawCalls[i].fi > drawCalls[j].fi

\* C10: rotate-then-translate consistency. transformVertex(v) is
\* (x*cos - z*sin, y, x*sin + z*cos + position.z), which differs from
\* translate-then-rotate whenever position.z * sin is not 0; and
\* getAverageDepth(face) is the mean over the face's indices of the z of
\* transformVertex at the same rotation, the transform the drawn points use.
C10_RotateThenTranslate ==
    LET c == Cos(model.rotation)
        s == Sin(model.rotation)
        pz == model.position.z
    IN  /\ \A n \in 1..Len(model.vertices) :
              LET v == model.vertices[n]
              IN  /\ transformVertex(model, v) =
                        Vector3D(v.x * c - v.z * s, v.y * Scale,
                                 v.x * s + v.z * c + pz * Scale)
                  /\ pz * s # 0 =>
                        transformVertex(model, v).x # v.x * c - (v.z + pz) * s
        /\ \A i \in 1..Len(model.faces) :
              LET f == model.faces[i]
                  zs == [k \in 1..Len(f) |-> transformVertex(model, At(model.vertices, f[k])).z]
                  total == IF Len(f) = 3 THEN zs[1] + zs[2] + zs[3]
                           ELSE zs[1] + zs[2] + zs[3] + zs[4]
              IN  Len(f) \in 3..4 =>
                     getAverageDepth(model, f)[1] * Len(f) = total * getAverageDepth(model, f)[2]
        /\ \A i \in 1..Len(drawCalls) :
              \A k \in 1..Len(drawCalls[i].face) :
                  drawCalls[i].path.points[k] = screenPointOf(drawCalls[i].face[k])

\* a frame drawn at a rotation and a camera distance at which the order of
\* rotation and translation matters
C10_Witness ==
    /\ renders > 0 /\ drawCalls # <<>>
    /\ model.position.z # 0
    /\ Sin(model.rotation) # 0

\* C11 as claimed: control surface. Culling-enabled-vs-disabled is a toggle
\* of its own: once the listener is installed some key switches culling
\* while leaving the wireframe-vs-shaded presentation as it is (so that
\* shaded without culling and wireframe with culling can be reached).
C11_SeparateCullingToggle ==
    phase # "constructed" =>
        \E key \in Keys :
            /\ onKeyDown(wireframeMode, key) = wireframeMode
            /\ cullingEnabled(onKeyDown(wireframeMode, key)) # cullingEnabled(wireframeMode)

\* the face under identity fi is a back face in the last frame
backFace(fi) == ~isFaceVisible(frameModel, At(model.faces, fi))

\* C11 as amended: the control surface has the one wireframe-vs-shaded
\* toggle (key w) and culling follows it. No frame shows shaded presentation
\* with culling disabled (a back face is never filled) and no frame shows
\* wireframe with culling enabled (a face is left out of shaded frames
\* only, and only when it is a back face); a key other than w changes
\* neither.
C11_CullingFollowsWireframe ==
    /\ renders > 0 =>
          /\ \A i \in 1..Len(drawCalls) :
                backFace(drawCalls[i].fi) => ~drawCalls[i].path.fill
          /\ \A fi \in allFaces \ drawnFaces : ~frame.wire /\ backFace(fi)
    /\ \A key \in Keys :
          onKeyDown(wireframeMode, key) # wireframeMode <=> key \in {"w", "W"}

\* w was pressed after a shaded frame that left out a back face and filled a
\* front face: the frame shown is shaded and culled, the next is wireframe
C11_Witness ==
    /\ renders > 0 /\ ~frame.wire /\ wireframeMode
    /\ \E fi \in allFaces \ drawnFaces : backFace(fi)
    /\ \E i \in 1..Len(drawCalls) : drawCalls[i].path.fill /\ ~backFace(drawCalls[i].fi)

\* projected coordinates a/b tried: 0, +-1/2, +-1, +-3/2, +-2, +-3
Probes == {<<a, b>> : a \in -3..3, b \in 1..2}

\* p = q and p < q on fractions with positive denominators
fracEq(p, q) == p[1] * q[2] = q[1] * p[2]

fracLess(p, q) == p[1] * q[2] < q[1] * p[2]

\* toScreenCoords of the renderer's camera on the projected point (px, py)
screenOf(px, py) == toScreenCoordsOf(rendererCamera, [x |-> px, y |-> py, z |-> 1])

\* a screen coordinate c = num/den that lies outside 0..size
offCanvas(c, size) ==
    /\ c[2] # 0
    /\ \/ Sgn(c[1]) * Sgn(c[2]) < 0
       \/ c[1] * Sgn(c[1]) > size * c[2] * Sgn(c[2])

\* C12: screen mapping with y-flip. For every viewport width and height
\* toScreenCoords maps projected (0,0) to (width/2, height/2), (-1,-1) to
\* (0, height) and (1,1) to (width, 0); screenX = (x+1)/2*width increases
\* with x, screenY = (1-(y+1)/2)*height decreases with y, and inputs outside
\* [-1, 1] are mapped by the same formulas, unclamped; the points of every
\* draw call are these formulas on the projected vertices.
C12_ScreenMapping ==
    LET w == rendererCamera.canvasWidth
        h == rendererCamera.canvasHeight
    IN  /\ fracEq(screenOf(<<0, 1>>, <<0, 1>>).x, <<w, 2>>)
        /\ fracEq(screenOf(<<0, 1>>, <<0, 1>>).y, <<h, 2>>)
        /\ fracEq(screenOf(<<-1, 1>>, <<-1, 1>>).x, <<0, 1>>)
        /\ fracEq(screenOf(<<-1, 1>>, <<-1, 1>>).y, <<h, 1>>)
        /\ fracEq(screenOf(<<1, 1>>, <<1, 1>>).x, <<w, 1>>)
        /\ fracEq(screenOf(<<1, 1>>, <<1, 1>>).y, <<0, 1>>)
        /\ \A p \in Probes :
              /\ fracEq(screenOf(p, p).x, <<(p[1] + p[2]) * w, 2 * p[2]>>)
              /\ fracEq(screenOf(p, p).y, <<(p[2] - p[1]) * h, 2 * p[2]>>)
        /\ \A p, q \in Probes :
              fracLess(p, q) =>
                  /\ fracLess(screenOf(p, p).x, screenOf(q, q).x)
                  /\ fracLess(screenOf(q, q).y, screenOf(p, p).y)
        /\ fracEq(screenOf(<<3, 1>>, <<3, 1>>).x, <<2 * w, 1>>)
        /\ fracEq(screenOf(<<3, 1>>, <<3, 1>>).y, <<-h, 1>>)
        /\ \A i \in 1..Len(drawCalls) :
              \A k \in 1..Len(drawCalls[i].face) :
                  LET t == transformVertex(frameModel,
                                           At(model.vertices, drawCalls[i].face[k]))
                  IN  drawCalls[i].path.points[k] =
                          [x |-> <<(t.x + t.z) * w, 2 * t.z>>,
                           y |-> <<(t.z - t.y) * h, 2 * t.z>>]

\* on a canvas that is not square, a frame drew a vertex at the exact centre
\* pixel and a vertex that lies off the canvas
C12_Witness ==
    /\ renders > 0
    /\ rendererCamera.canvasWidth # rendererCamera.canvasHeight
    /\ \E i \in 1..Len(drawCalls) :
          /\ \E k \in 1..Len(drawCalls[i].face) :
                LET pt == drawCalls[i].path.points[k]
                IN  /\ pt.x[2] # 0
                    /\ 2 * pt.x[1] = rendererCamera.canvasWidth * pt.x[2]
                    /\ 2 * pt.y[1] = rendererCamera.canvasHeight * pt.y[2]
          /\ \E k \in 1..Len(drawCalls[i].face) :
                offCanvas(drawCalls[i].path.points[k].x, rendererCamera.canvasWidth)

\* C13: frame atomicity. The timer callback and the keydown listener each
\* run to completion: within one render every draw call, with its depth key,
\* visibility test, vertex transforms and shading, uses the one rotation the
\* frame's update left and the one wireframeMode the frame began with; a
\* keydown changes no drawn frame and only the next frame reads its toggle.
C13_FrameAtomicity ==
    /\ [](renders > 0 =>
            /\ frame.rot = model.rotation
            /\ \A i \in 1..Len(drawCalls) :
                  /\ drawCalls[i].rot = frame.rot
                  /\ drawCalls[i].wire = frame.wire
                  /\ ~culled(frameModel, frame.wire, drawCalls[i].face)
                  /\ drawCalls[i].path = drawFace(frameModel, frame.wire, drawCalls[i].face)
            /\ \A i, j \in 1..Len(drawCalls) :
                  i < j =>
                      depthGeq(getAverageDepth(frameModel, drawCalls[i].face),
                               getAverageDepth(frameModel, drawCalls[j].face)))
    /\ [][ /\ renders' = renders =>
                  /\ drawCalls' = drawCalls
                  /\ frame' = frame
                  /\ model' = model
           /\ renders' # renders =>
                  /\ wireframeMode' = wireframeMode
                  /\ frame'.wire = wireframeMode
                  /\ frame'.rot = model.rotation + 1
                  /\ model'.rotation = frame'.rot ]_vars

\* a frame of two or more faces drawn in wireframe after an earlier toggle
\* took effect, and a later toggle that waits for the next frame
C13_Witness ==
    /\ renders > 1
    /\ frame.wire /\ ~wireframeMode
    /\ Len(drawCalls) >= 2
    /\ \A i \in 1..Len(drawCalls) : drawCalls[i].wire

\* the faces of the mesh whose normal is the zero vector
zeroNormalFaces ==
    {fi \in allFaces : magnitudeSq(getFaceNormal(frameModel, At(model.faces, fi))) = 0}

\* C14: shading never normalizes a zero vector. With every face of three or
\* more in-range indices, drawShadedFace runs only in shaded mode and only on
\* faces whose rotated normal has z < 0 in that frame, so the normal it
\* normalizes has a positive magnitude, brightness is a number and the
\* colour value is never NaN; a face with a zero normal is never filled.
C14_NoZeroNormalShaded ==
    /\ \A i \in fillCalls :
          LET n == rotatedNormalOfCall(i)
          IN  /\ ~frame.wire
              /\ isFaceVisible(frameModel, drawCalls[i].face)
              /\ n.z < 0
              /\ magnitudeSq(n) > 0
              /\ drawCalls[i].path.brightness.den # 0
              /\ ~isNaN(drawCalls[i].path.fillStyle[2])
              /\ drawCalls[i].path.fillStyle[2][2] = 1
    /\ \A i \in fillCalls : drawCalls[i].fi \notin zeroNormalFaces

\* a shaded frame of a mesh that holds a face with a zero normal: that face
\* was skipped and another face was filled
C14_Witness ==
    /\ renders > 0 /\ ~frame.wire
    /\ zeroNormalFaces # {}
    /\ fillCalls # {}
    /\ zeroNormalFaces \cap drawnFaces = {}

\* a vertex entry that is a record of three numbers
isVertexRecord(v) ==
    /\ DOMAIN v = {"x", "y", "z"}
    /\ ~v.x.nan /\ ~v.y.nan /\ ~v.z.nan

\* C15: parseOBJ output is a well-formed mesh for every input text. Every
\* returned face has exactly 3 indices, every index is an integer in
\* 0..vertices.length-1, every entry of the returned vertices is a defined
\* {x, y, z} record, and every returned vertex is referenced by a face.
C15_WellFormedOutput ==
    phase = "parsed" =>
        /\ \A i \in 1..Len(model.faces) :
              /\ Len(model.faces[i]) = 3
              /\ \A k \in 1..3 : Defined(model.vertices, model.faces[i][k])
        /\ \A n \in 1..Len(model.vertices) :
              /\ isVertexRecord(model.vertices[n])
              /\ \E i \in 1..Len(model.faces) :
                    \E k \in 1..3 : model.faces[i][k] = n - 1

\* the v lines of the text, in order
vLinesOf(text) == SelectSeq(text, isVertexLine)

\* the coordinates a v line gives
coordinatesOf(parts) ==
    [x |-> partFloat(parts, 1), y |-> partFloat(parts, 2), z |-> partFloat(parts, 3)]

\* the 1-based indices i0..i(n-1) an f line names
namedBy(parts) == [k \in 1..Len(idxsOf(parts)) |-> idxsOf(parts)[k] + 1]

\* the triangles (i0, ik, ik+1), k = 1..n-2, of the f lines of text[1..n],
\* in 1-based v line numbers
RECURSIVE namedTriangles(_, _)
namedTriangles(text, n) ==
    IF n = 0 THEN <<>>
    ELSE LET ix == namedBy(text[n])
         IN  namedTriangles(text, n - 1) \o
                 (IF isFaceLine(text[n]) /\ Len(ix) >= 3
                  THEN [k \in 1..(Len(ix) - 2) |-> <<ix[1], ix[k + 1], ix[k + 2]>>]
                  ELSE <<>>)

\* C16: parseOBJ preserves geometry through triangulation and remapping. An
\* f line with n >= 3 indices yields exactly the fan triangles (i0, ik, ik+1),
\* k = 1..n-2, in that order and winding, and for every input text each
\* index of each returned triangle resolves, in the returned vertices, to the
\* coordinates of the v line that the f line's 1-based index named, counting
\* the file's v lines in order.
C16_GeometryPreserved ==
    phase = "parsed" =>
        LET named == namedTriangles(args.text, Len(args.text))
            vLines == vLinesOf(args.text)
        IN  /\ Len(model.faces) = Len(named)
            /\ \A i \in 1..Len(named) :
                  \A k \in 1..3 :
                      named[i][k] \in 1..Len(vLines) =>
                          /\ Defined(model.vertices, model.faces[i][k])
                          /\ At(model.vertices, model.faces[i][k]) =
                                 coordinatesOf(vLines[named[i][k]])

====
